---- MODULE Spec2Model ----
(***************************************************************************)
(* A model of booklice's title inference (printable, newPhrase,           *)
(* tryAppend, phrasesOfDoc, titleFromPhrases, phrase.String, dictCheck)    *)
(* and of the indexing step that calls it (main.go: addPDF, scanFunc).     *)
(*                                                                         *)
(* Go strings are byte strings: a string is a sequence of bytes 0..255.    *)
(* A rune is a code point, an integer.  Font sizes and coordinates are     *)
(* the float64 values of pdf.Text restricted to whole numbers; products    *)
(* with the coefficients 0.16 and 0.20 are compared exactly, as rationals. *)
(***************************************************************************)
EXTENDS Integers, Sequences, FiniteSets, TLC

VARIABLES san, eng, rnd, dct, idx

vars == <<san, eng, rnd, dct, idx>>

\* The value of a component that a specification does not run.
Idle == [pc |-> "idle"]

(***************************************************************************)
(* Bounds of the model.                                                    *)
(***************************************************************************)
MaxBytes == 3

(***************************************************************************)
(* unicode/utf8 and unicode, as printable uses them.                       *)
(***************************************************************************)
RuneError == 65533
space == 32

\* The bytes the sanitizer's inputs are drawn from: 'A', tab, the lead byte
\* 0xC3 of a two-byte sequence, the lead byte 0xEF of a three-byte sequence
\* and the continuation bytes 0xBF and 0xBD.  EF BF BD encodes U+FFFD.
SanBytes == {65, 9, 195, 239, 191, 189}

IsCont(b) == b >= 128 /\ b <= 191

\* The accept range of the second byte after lead byte b0 (utf8.acceptRanges).
SecondLo(b0) == IF b0 = 224 THEN 160 ELSE IF b0 = 240 THEN 144 ELSE 128
SecondHi(b0) == IF b0 = 237 THEN 159 ELSE IF b0 = 244 THEN 143 ELSE 191

\* The length of the sequence lead byte b0 announces; 1 for ASCII, 0 for a
\* byte that cannot start a sequence (utf8.first).
SeqLen(b0) ==
    IF b0 < 128 THEN 1
    ELSE IF b0 >= 194 /\ b0 <= 223 THEN 2
    ELSE IF b0 >= 224 /\ b0 <= 239 THEN 3
    ELSE IF b0 >= 240 /\ b0 <= 244 THEN 4
    ELSE 0

\* A mutant of DecodeRuneInString: an invalid sequence has width 0.
DecodeRuneInString_ZeroWidth(s) ==
    IF Len(s) < 1 THEN [r |-> RuneError, siz |-> 0]
    ELSE LET b0 == s[1]
             sz == SeqLen(b0)
         IN  IF sz = 1 THEN [r |-> b0, siz |-> 1]
             ELSE IF sz = 0 \/ Len(s) < sz THEN [r |-> RuneError, siz |-> 0]
             ELSE IF s[2] < SecondLo(b0) \/ s[2] > SecondHi(b0)
                  THEN [r |-> RuneError, siz |-> 0]
             ELSE IF sz = 2
                  THEN [r |-> (b0 % 32) * 64 + (s[2] % 64), siz |-> 2]
             ELSE IF ~IsCont(s[3]) THEN [r |-> RuneError, siz |-> 0]
             ELSE IF sz = 3
                  THEN [r |-> (b0 % 16) * 4096 + (s[2] % 64) * 64 + (s[3] % 64),
                        siz |-> 3]
             ELSE IF ~IsCont(s[4]) THEN [r |-> RuneError, siz |-> 0]
             ELSE [r |-> (b0 % 8) * 262144 + (s[2] % 64) * 4096
                         + ((s[3] % 64) * 64) + (s[4] % 64),
                   siz |-> 4]

\* utf8.DecodeRuneInString: the first rune of s and its width in bytes;
\* (RuneError, 0) for the empty string, (RuneError, 1) for an invalid or
\* truncated sequence.
DecodeRuneInString(s) ==
    IF Len(s) < 1 THEN [r |-> RuneError, siz |-> 0]
    ELSE LET b0 == s[1]
             sz == SeqLen(b0)
         IN  IF sz = 1 THEN [r |-> b0, siz |-> 1]
             ELSE IF sz = 0 \/ Len(s) < sz THEN [r |-> RuneError, siz |-> 1]
             ELSE IF s[2] < SecondLo(b0) \/ s[2] > SecondHi(b0)
                  THEN [r |-> RuneError, siz |-> 1]
             ELSE IF sz = 2
                  THEN [r |-> (b0 % 32) * 64 + (s[2] % 64), siz |-> 2]
             ELSE IF ~IsCont(s[3]) THEN [r |-> RuneError, siz |-> 1]
             ELSE IF sz = 3
                  THEN [r |-> (b0 % 16) * 4096 + (s[2] % 64) * 64 + (s[3] % 64),
                        siz |-> 3]
             ELSE IF ~IsCont(s[4]) THEN [r |-> RuneError, siz |-> 1]
             ELSE [r |-> (b0 % 8) * 262144 + (s[2] % 64) * 4096
                         + ((s[3] % 64) * 64) + (s[4] % 64),
                   siz |-> 4]

\* unicode.IsGraphic on the code points the model's strings can hold: ASCII,
\* Latin-1 (U+00AD, the soft hyphen, is a format character), the halfwidth
\* forms U+FF61..U+FF9F and U+FFFD.  Controls, U+FFFE and U+FFFF are not
\* graphic.
IsGraphic(r) ==
    \/ r >= 32 /\ r <= 126
    \/ r >= 160 /\ r <= 255 /\ r # 173
    \/ r >= 65377 /\ r <= 65439
    \/ r = 65533

\* string(rune): the UTF-8 encoding of a valid code point below U+10000.
EncodeRune(r) ==
    IF r < 128 THEN <<r>>
    ELSE IF r < 2048 THEN <<192 + (r \div 64), 128 + (r % 64)>>
    ELSE <<224 + (r \div 4096), 128 + ((r \div 64) % 64), 128 + (r % 64)>>

RECURSIVE EncodeRunes(_)
EncodeRunes(rs) ==
    IF rs = <<>> THEN <<>> ELSE EncodeRune(Head(rs)) \o EncodeRunes(Tail(rs))

(***************************************************************************)
(* printable                                                               *)
(***************************************************************************)
\* The rune one iteration of printable's loop appends for the decoded d.
PrintableRune(d) ==
    IF d.r = RuneError THEN space
    ELSE IF IsGraphic(d.r) THEN d.r
    ELSE space

\* s = s[siz:]
Advance(s, siz) == SubSeq(s, siz + 1, Len(s))

RECURSIVE PrintableRunes(_)
PrintableRunes(s) ==
    LET d == DecodeRuneInString(s)
    IN  IF d.siz = 0 THEN <<>>
        ELSE <<PrintableRune(d)>> \o PrintableRunes(Advance(s, d.siz))

\* printable(s) as a function: string(runes)
printable(s) == EncodeRunes(PrintableRunes(s))

\* All byte strings over B of length at most n.
RECURSIVE SeqsUpTo(_, _)
SeqsUpTo(B, n) ==
    IF n = 0 THEN {<<>>}
    ELSE LET shorter == SeqsUpTo(B, n - 1)
         IN  shorter \cup {Append(t, b) : t \in {u \in shorter : Len(u) = n - 1}, b \in B}

\* printable's loop, one iteration a step.  in is the argument, s the rest
\* still to decode, runes the output so far; steps counts the iterations that
\* decoded a unit and last records the unit and the rune appended for it.
InitPrintable ==
    /\ san \in {[pc |-> "loop", in |-> i, s |-> i, runes |-> <<>>, steps |-> 0,
                 last |-> [r |-> 0, siz |-> 0, out |-> 0]] :
                    i \in SeqsUpTo(SanBytes, MaxBytes)}
    /\ eng = Idle /\ rnd = Idle /\ dct = Idle /\ idx = Idle

PrintableIter ==
    /\ san.pc = "loop"
    /\ LET d == DecodeRuneInString(san.s)
       IN  /\ d.siz # 0
           /\ san' = [san EXCEPT !.runes = Append(@, PrintableRune(d)),
                                 !.s = Advance(@, d.siz),
                                 !.steps = @ + 1,
                                 !.last = [r |-> d.r, siz |-> d.siz,
                                           out |-> PrintableRune(d)]]
    /\ UNCHANGED <<eng, rnd, dct, idx>>

PrintableBreak ==
    /\ san.pc = "loop"
    /\ DecodeRuneInString(san.s).siz = 0
    /\ san' = [san EXCEPT !.pc = "done"]
    /\ UNCHANGED <<eng, rnd, dct, idx>>

NextPrintable == PrintableIter \/ PrintableBreak

SpecPrintable == InitPrintable /\ [][NextPrintable]_vars

\* printable's loop runs whenever it can.
SpecPrintableFair == SpecPrintable /\ WF_vars(NextPrintable)

\* C6: printable terminates on every input of the model, invalid and
\* truncated sequences included: every iteration consumes at least one byte
\* (so the iterations never outnumber the bytes consumed), the loop ends only
\* with the whole input consumed, it always ends, and the output has one rune
\* per decode step.
C6_SanitizerTerminates ==
    /\ [](/\ san.steps <= Len(san.in) - Len(san.s)
          /\ Len(san.runes) = san.steps
          /\ (san.pc = "done" => san.s = <<>>))
    /\ <>(san.pc = "done")

\* C6 witness: the loop has ended on an input whose last unit is a truncated
\* sequence, after three decode steps.
C6_Witness ==
    /\ san.pc = "done"
    /\ san.in = <<65, 195, 239>>
    /\ san.steps = 3

\* C7 (as claimed): the rune appended for a decoded unit is the decoded rune
\* when the unit is validly encoded and graphic, a validly encoded U+FFFD
\* included, and a space otherwise.  A unit is invalidly encoded exactly
\* when DecodeRuneInString reports (RuneError, 1).
C7_ValidGraphicPassThrough ==
    san.steps > 0 =>
        san.last.out = IF ~(san.last.r = RuneError /\ san.last.siz = 1)
                          /\ IsGraphic(san.last.r)
                       THEN san.last.r
                       ELSE space

(***************************************************************************)
(* Strings: strings.Fields, strings.Join, strings.ToLower, the regexp      *)
(* [[:alpha:]]{3,30} and the stemmer, as phrase.String and dictCheck use   *)
(* them.                                                                   *)
(***************************************************************************)
Min(a, b) == IF a < b THEN a ELSE b
Abs(x) == IF x < 0 THEN -x ELSE x

\* unicode.IsSpace on the bytes the model's strings hold after printable:
\* the ASCII white space.
IsSpaceByte(b) == b = 32 \/ (b >= 9 /\ b <= 13)

\* The least element of a non-empty set of numbers.
Least(S) == CHOOSE i \in S : \A j \in S : i <= j

\* The number of leading bytes of s that are no white space.
FieldLen(s) ==
    LET stops == {i \in 1..Len(s) : IsSpaceByte(s[i])}
    IN  IF stops = {} THEN Len(s) ELSE Least(stops) - 1

\* strings.Fields(s)
RECURSIVE Fields(_)
Fields(s) ==
    IF s = <<>> THEN <<>>
    ELSE IF IsSpaceByte(Head(s)) THEN Fields(Tail(s))
    ELSE LET n == FieldLen(s)
         IN  <<SubSeq(s, 1, n)>> \o Fields(SubSeq(s, n + 1, Len(s)))

\* strings.Join(fs, " ")
RECURSIVE Join(_)
Join(fs) ==
    IF fs = <<>> THEN <<>>
    ELSE IF Len(fs) = 1 THEN fs[1]
    ELSE fs[1] \o <<space>> \o Join(Tail(fs))

IsUpper(b) == b >= 65 /\ b <= 90
IsLower(b) == b >= 97 /\ b <= 122
\* [[:alpha:]]
IsAlpha(b) == IsUpper(b) \/ IsLower(b)

\* strings.ToLower and strings.ToUpper on ASCII letters
ToLower(w) == [i \in 1..Len(w) |-> IF IsUpper(w[i]) THEN w[i] + 32 ELSE w[i]]
ToUpper(w) == [i \in 1..Len(w) |-> IF IsLower(w[i]) THEN w[i] - 32 ELSE w[i]]

\* The number of leading bytes of s that are letters.
AlphaRun(s) ==
    LET stops == {i \in 1..Len(s) : ~IsAlpha(s[i])}
    IN  IF stops = {} THEN Len(s) ELSE Least(stops) - 1

\* The bounds of the regexp's repetition {3,30}.
minWordLen == 3
maxWordLen == 30

\* wordsExtractor.FindAllString(s, -1): the leftmost, longest matches of
\* [[:alpha:]]{3,30}, not overlapping.
RECURSIVE FindAllString(_)
FindAllString(s) ==
    IF s = <<>> THEN <<>>
    ELSE LET n == AlphaRun(s)
         IN  IF n >= minWordLen
             THEN LET k == Min(n, maxWordLen)
                  IN  <<SubSeq(s, 1, k)>> \o FindAllString(SubSeq(s, k + 1, Len(s)))
             ELSE FindAllString(SubSeq(s, (IF n = 0 THEN 1 ELSE n) + 1, Len(s)))

EndsWith(w, suf) ==
    Len(w) >= Len(suf) /\ SubSeq(w, Len(w) - Len(suf) + 1, Len(w)) = suf

\* stemmer.Stem(w): the stem, in upper case.  Of Porter's steps the model
\* has the first (1a: SSES -> SS, IES -> I, SS -> SS, S -> ""), the one that
\* applies to the words of the model.
Stem(w) ==
    LET u == ToUpper(w)
    IN  IF EndsWith(u, <<83, 83, 69, 83>>) THEN SubSeq(u, 1, Len(u) - 2)
        ELSE IF EndsWith(u, <<73, 69, 83>>) THEN SubSeq(u, 1, Len(u) - 2)
        ELSE IF EndsWith(u, <<83, 83>>) THEN u
        ELSE IF EndsWith(u, <<83>>) THEN SubSeq(u, 1, Len(u) - 1)
        ELSE u

\* The word list: the entries the model's texts can hit.
\* "design", "of", "system", "the", "big", "sit", "dolor"
words ==
    { <<100,101,115,105,103,110>>, <<111,102>>, <<115,121,115,116,101,109>>,
      <<116,104,101>>, <<98,105,103>>, <<115,105,116>>, <<100,111,108,111,114>> }

\* words[strings.ToLower(w)] || words[strings.ToLower(stemmer.Stem(w))]
InDict(w) == ToLower(w) \in words \/ ToLower(Stem(w)) \in words

\* wordsInDictPercent, 0.20, in hundredths.
wordsInDictPercent == 20

\* A mutant of dictCheck: the threshold is exclusive.
dictCheck_Exclusive(s) ==
    LET toks == FindAllString(s)
        tlwords == Len(toks)
        tlwordsInDict == Cardinality({i \in 1..Len(toks) : InDict(toks[i])})
    IN  tlwords > 0 /\ tlwordsInDict * 100 > wordsInDictPercent * tlwords

\* dictCheck(s).  float64(tlwordsInDict)/float64(tlwords) >= 0.20 is decided
\* exactly: the quotient of two small integers is correctly rounded and 0.20
\* is the float64 nearest to 1/5, so the comparison agrees with that of the
\* rationals.
dictCheck(s) ==
    LET toks == FindAllString(s)
        tlwords == Len(toks)
        tlwordsInDict == Cardinality({i \in 1..Len(toks) : InDict(toks[i])})
    IN  tlwords > 0 /\ tlwordsInDict * 100 >= wordsInDictPercent * tlwords

(***************************************************************************)
(* phrase: newPhrase, tryAppend, String.                                   *)
(***************************************************************************)
MaxRuns == 4
MaxPages == 2

\* The text runs a first page is made of (pdf.Text).  Runs 1 to 4 are the
\* runs "Design", "of", "Systems" and "Lorem ipsum dolor sit amet
\* consectetur"; 5 is "the", 6 is "big", 7 is "Hi" followed by a tab, 8 is
\* two U+00FF (four bytes).  Run 9 has the empty text, no width and the
\* font size 25, for which spacing is 4.00; it starts 4.00 after the end of
\* run 1.
Run(id) ==
    CASE id = 1 -> [S |-> <<68,101,115,105,103,110>>, Font |-> "Title",
                    FontSize |-> 24, X |-> 0, Y |-> 100, W |-> 40]
      [] id = 2 -> [S |-> <<111,102>>, Font |-> "Title",
                    FontSize |-> 24, X |-> 42, Y |-> 100, W |-> 15]
      [] id = 3 -> [S |-> <<83,121,115,116,101,109,115>>, Font |-> "Title",
                    FontSize |-> 24, X |-> 59, Y |-> 100, W |-> 45]
      [] id = 4 -> [S |-> <<76,111,114,101,109,32,105,112,115,117,109,32,100,111,
                           108,111,114,32,115,105,116,32,97,109,101,116,32,99,
                           111,110,115,101,99,116,101,116,117,114>>,
                    Font |-> "Body",
                    FontSize |-> 10, X |-> 0, Y |-> 80, W |-> 200]
      [] id = 5 -> [S |-> <<116,104,101>>, Font |-> "Title",
                    FontSize |-> 30, X |-> 0, Y |-> 120, W |-> 20]
      [] id = 6 -> [S |-> <<98,105,103>>, Font |-> "Body",
                    FontSize |-> 27, X |-> 110, Y |-> 100, W |-> 20]
      [] id = 7 -> [S |-> <<72,105,9>>, Font |-> "Body",
                    FontSize |-> 28, X |-> 0, Y |-> 90, W |-> 12]
      [] id = 8 -> [S |-> <<195,191,195,191>>, Font |-> "Title",
                    FontSize |-> 40, X |-> 0, Y |-> 140, W |-> 30]
      [] id = 9 -> [S |-> <<>>, Font |-> "Title",
                    FontSize |-> 25, X |-> 44, Y |-> 100, W |-> 0]

RunIds == 1..9

\* spacingCoefficient, 0.16, in hundredths.
spacingCoefficient == 16
\* The tolerance of tryAppend's font size test, 4.0.
fontSizeTolerance == 4

\* newPhrase(t).  spacing is kept in hundredths.  ord (the phrase's place in
\* document order) and sizes (the font sizes of the runs the phrase holds,
\* the seed's first) are history, not fields of the struct.
newPhrase(t, ord) ==
    [font |-> t.Font, fontSize |-> t.FontSize,
     spacing |-> spacingCoefficient * t.FontSize,
     b |-> printable(t.S), length |-> Len(t.S),
     prevx |-> t.X + t.W, prevy |-> t.Y,
     ord |-> ord, sizes |-> <<t.FontSize>>]

\* A mutant of FontSizeFits: the tolerance is inclusive.
FontSizeFits_Inclusive(p, t) == Abs(t.FontSize - p.fontSize) <= fontSizeTolerance

\* canAppend in tryAppend (fontFits is constantly true).
FontSizeFits(p, t) == Abs(t.FontSize - p.fontSize) < fontSizeTolerance

\* A mutant of NeedsSeparator: any gap separates.
NeedsSeparator_AnyGap(p, t) ==
    p.length > 0 /\ (t.Y < p.prevy \/ (t.X - p.prevx) > 0)

\* A mutant of NeedsSeparator: a gap equal to spacing does not separate.
NeedsSeparator_Strict(p, t) ==
    p.length > 0 /\ (t.Y < p.prevy \/ (t.X - p.prevx) * 100 > p.spacing)

\* tryAppend's test for the separator: t.X - p.prevx >= p.spacing, in
\* hundredths.
NeedsSeparator(p, t) ==
    p.length > 0 /\ (t.Y < p.prevy \/ (t.X - p.prevx) * 100 >= p.spacing)

\* The phrase after tryAppend(t) has accepted t.
tryAppend(p, t) ==
    LET sep == NeedsSeparator(p, t)
    IN  [p EXCEPT !.b = @ \o (IF sep THEN <<space>> ELSE <<>>) \o printable(t.S),
                  !.length = @ + (IF sep THEN 1 ELSE 0) + Len(t.S),
                  !.prevx = t.X + t.W,
                  !.prevy = t.Y,
                  !.sizes = Append(@, t.FontSize)]

\* The cap of phrase.String.
maxTitleLen == 80

\* phrase.String() of a phrase whose buffer holds b: s[0:min(80, len(s))]
\* cuts bytes.
StringOf(b) ==
    LET s == Join(Fields(b))
    IN  SubSeq(s, 1, Min(maxTitleLen, Len(s)))

String(p) == StringOf(p.b)

(***************************************************************************)
(* title, phrasesOfDoc and titleFromPhrases.                               *)
(***************************************************************************)
\* What the reader can panic with, and what pdf.NewReader can fail with.
PanicVals == {"malformed hex string", "pdf: malformed hex string in object",
              "unexpected EOF"}
InitErrs == {"not a PDF file", "malformed hex string"}

\* strings.Index(errStr, "malformed hex string") on the messages above.
IndexMalformedHex(errStr) ==
    CASE errStr = "malformed hex string" -> 0
      [] errStr = "pdf: malformed hex string in object" -> 5
      [] OTHER -> -1

\* A mutant of RecoverErr: every panic is reported generically.
RecoverErr_Generic(errStr) == "reader paniced: " \o errStr

\* The error the deferred function of phrasesOfDoc sets for a recovered
\* panic with message errStr.
RecoverErr(errStr) ==
    IF IndexMalformedHex(errStr) >= 0
    THEN "reader paniced: malformed hex string"
    ELSE "reader paniced: " \o errStr

InitErr(msg) == "can't init reader: " \o msg

\* slices.SortFunc(phrases, cmp) with cmp comparing b.fontSize to a.fontSize:
\* the permutations of phrases in descending fontSize.  The sort is not
\* guaranteed to be stable, so phrases of equal fontSize come in any order.
IsSortedDesc(q) == \A i \in 1..(Len(q) - 1) : q[i].fontSize >= q[i + 1].fontSize

SortFunc(phrases) ==
    {q \in {[i \in 1..Len(phrases) |-> phrases[f[i]]] :
                f \in Permutations(1..Len(phrases))} : IsSortedDesc(q)}

\* The length below which titleFromPhrases drops the first phrase.
minTitleLen == 4

\* A mutant of Candidate: no short-text rule.
Candidate_FirstOnly(ranked) == String(ranked[1])

\* tl in titleFromPhrases, before dictCheck, for a sorted, non-empty list.
Candidate(ranked) ==
    LET tl == String(ranked[1])
    IN  IF Len(tl) < minTitleLen
        THEN IF Len(ranked) > 1 THEN String(ranked[2]) ELSE <<>>
        ELSE tl

\* eng: one call of title.  read is the page's runs ranged over so far;
\* fault records what the reader did ("none", "init": NewReader failed,
\* "abort": a panic); curr is currPhrase (empty for nil).
InitTitle ==
    /\ eng = [pc |-> "docgen", i |-> 1, read |-> <<>>,
              phrases |-> <<>>, curr |-> <<>>, panicVal |-> "", fault |-> "none",
              rerr |-> "", ranked |-> <<>>, tl |-> <<>>, title |-> <<>>,
              err |-> ""]
    /\ san = Idle /\ rnd = Idle /\ dct = Idle /\ idx = Idle

\* docgen() returns a reader.
DocgenOK ==
    /\ eng.pc = "docgen"
    /\ eng' = [eng EXCEPT !.pc = "pages"]
    /\ UNCHANGED <<san, rnd, dct, idx>>

\* docgen() returns an error.
DocgenErr ==
    /\ eng.pc = "docgen"
    /\ \E m \in InitErrs :
          eng' = [eng EXCEPT !.pc = "ret", !.rerr = InitErr(m), !.fault = "init"]
    /\ UNCHANGED <<san, rnd, dct, idx>>

\* The reader panics: in NewReader, in NumPage or Page, or in Content.
ReaderPanic ==
    /\ eng.pc \in {"docgen", "pages", "content"}
    /\ \E v \in PanicVals :
          eng' = [eng EXCEPT !.pc = "panicking", !.panicVal = v, !.fault = "abort"]
    /\ UNCHANGED <<san, rnd, dct, idx>>

\* The deferred function recovers the panic and sets rerr.
Recover ==
    /\ eng.pc = "panicking"
    /\ eng' = [eng EXCEPT !.pc = "ret", !.rerr = RecoverErr(eng.panicVal)]
    /\ UNCHANGED <<san, rnd, dct, idx>>

\* i <= doc.NumPage() and doc.Page(i) is null.  The documents of the model
\* have at most MaxPages pages.
PageNull ==
    /\ eng.pc = "pages"
    /\ eng.i <= MaxPages
    /\ eng' = [eng EXCEPT !.i = @ + 1]
    /\ UNCHANGED <<san, rnd, dct, idx>>

\* i <= doc.NumPage() and doc.Page(i) is not null: it is the first page.
PageFound ==
    /\ eng.pc = "pages"
    /\ eng.i <= MaxPages
    /\ eng' = [eng EXCEPT !.pc = "content"]
    /\ UNCHANGED <<san, rnd, dct, idx>>

\* i > doc.NumPage(): no page, return nil, nil.
NoPage ==
    /\ eng.pc = "pages"
    /\ eng' = [eng EXCEPT !.pc = "ret"]
    /\ UNCHANGED <<san, rnd, dct, idx>>

\* firstPage.Content() returns.
ContentOK ==
    /\ eng.pc = "content"
    /\ eng' = [eng EXCEPT !.pc = "loop"]
    /\ UNCHANGED <<san, rnd, dct, idx>>

\* The loop's next run, with currPhrase nil.
LoopFirst ==
    /\ eng.pc = "loop"
    /\ Len(eng.read) < MaxRuns
    /\ eng.curr = <<>>
    /\ \E id \in RunIds :
          eng' = [eng EXCEPT !.read = Append(@, id),
                             !.curr = <<newPhrase(Run(id), 1)>>]
    /\ UNCHANGED <<san, rnd, dct, idx>>

\* The loop's next run, which currPhrase accepts.
LoopAppend ==
    /\ eng.pc = "loop"
    /\ Len(eng.read) < MaxRuns
    /\ eng.curr # <<>>
    /\ \E id \in RunIds :
          /\ FontSizeFits(eng.curr[1], Run(id))
          /\ eng' = [eng EXCEPT !.read = Append(@, id),
                                !.curr = <<tryAppend(eng.curr[1], Run(id))>>]
    /\ UNCHANGED <<san, rnd, dct, idx>>

\* The loop's next run, which currPhrase rejects.
LoopReject ==
    /\ eng.pc = "loop"
    /\ Len(eng.read) < MaxRuns
    /\ eng.curr # <<>>
    /\ \E id \in RunIds :
          /\ ~FontSizeFits(eng.curr[1], Run(id))
          /\ eng' = [eng EXCEPT !.read = Append(@, id),
                                !.phrases = Append(@, eng.curr[1]),
                                !.curr = <<newPhrase(Run(id), Len(eng.phrases) + 2)>>]
    /\ UNCHANGED <<san, rnd, dct, idx>>

\* A mutant of LoopEnd: the open phrase is not appended.
LoopEnd_NoClose ==
    /\ eng.pc = "loop"
    /\ eng' = [eng EXCEPT !.pc = "ret", !.curr = <<>>]
    /\ UNCHANGED <<san, rnd, dct, idx>>

\* The runs are exhausted: the open phrase is appended and phrasesOfDoc
\* returns.
LoopEnd ==
    /\ eng.pc = "loop"
    /\ eng' = [eng EXCEPT !.pc = "ret", !.phrases = @ \o eng.curr, !.curr = <<>>]
    /\ UNCHANGED <<san, rnd, dct, idx>>

\* title: phrasesOfDoc returned an error.
TitleErr ==
    /\ eng.pc = "ret"
    /\ eng.rerr # ""
    /\ eng' = [eng EXCEPT !.pc = "done", !.title = <<>>, !.err = eng.rerr]
    /\ UNCHANGED <<san, rnd, dct, idx>>

\* titleFromPhrases: the sort.
Rank ==
    /\ eng.pc = "ret"
    /\ eng.rerr = ""
    /\ \E q \in SortFunc(eng.phrases) : eng' = [eng EXCEPT !.pc = "select", !.ranked = q]
    /\ UNCHANGED <<san, rnd, dct, idx>>

\* titleFromPhrases: no phrases.
SelectNone ==
    /\ eng.pc = "select"
    /\ Len(eng.ranked) = 0
    /\ eng' = [eng EXCEPT !.pc = "done", !.title = <<>>]
    /\ UNCHANGED <<san, rnd, dct, idx>>

\* titleFromPhrases: tl.
Select ==
    /\ eng.pc = "select"
    /\ Len(eng.ranked) # 0
    /\ eng' = [eng EXCEPT !.pc = "check", !.tl = Candidate(eng.ranked)]
    /\ UNCHANGED <<san, rnd, dct, idx>>

\* titleFromPhrases: dictCheck.
Validate ==
    /\ eng.pc = "check"
    /\ eng' = [eng EXCEPT !.pc = "done",
                          !.title = IF dictCheck(eng.tl) THEN eng.tl ELSE <<>>]
    /\ UNCHANGED <<san, rnd, dct, idx>>

Next ==
    \/ DocgenOK \/ DocgenErr \/ ReaderPanic \/ Recover
    \/ PageNull \/ PageFound \/ NoPage \/ ContentOK
    \/ LoopFirst \/ LoopAppend \/ LoopReject \/ LoopEnd
    \/ TitleErr \/ Rank \/ SelectNone \/ Select \/ Validate

Spec == InitTitle /\ [][Next]_vars

(***************************************************************************)
(* Properties of the title engine.                                         *)
(***************************************************************************)
\* The phrases built so far: closed, open and ranked.
PhrasesSoFar ==
    {eng.phrases[k] : k \in 1..Len(eng.phrases)}
        \cup {eng.curr[k] : k \in 1..Len(eng.curr)}
        \cup {eng.ranked[k] : k \in 1..Len(eng.ranked)}

\* C1: in every phrase the phrase builder produces, fontSize is the font
\* size of the seed run, and every run the phrase holds has a font size
\* less than 4.0 away from it.
C1_AbsorbedWithinTolerance ==
    \A p \in PhrasesSoFar :
        /\ p.fontSize = p.sizes[1]
        /\ \A k \in 1..Len(p.sizes) : Abs(p.sizes[k] - p.fontSize) < 4

\* C1 witness: a phrase seeded at size 24 has absorbed a run of size 27 and
\* then rejected a run of size 30, which is within 4.0 of 27 but not of 24.
C1_Witness ==
    /\ eng.read = <<1, 6, 5>>
    /\ Len(eng.phrases) = 1
    /\ eng.phrases[1].sizes = <<24, 27>>
    /\ eng.curr # <<>>

\* "Design of Systems" and "DesignofSystems"
DesignOfSystemsSpaced ==
    <<68,101,115,105,103,110,32,111,102,32,83,121,115,116,101,109,115>>
DesignOfSystemsJoined ==
    <<68,101,115,105,103,110,111,102,83,121,115,116,101,109,115>>

\* The run sequence of the scenario has been read and title has returned.
ScenarioDone == eng.pc = "done" /\ eng.read = <<1, 2, 3, 4>>

\* C2 (as claimed): for the runs Design, of, Systems, Lorem ..., there are
\* two phrases, of sizes 24 and 10, the candidate is "Design of Systems",
\* the validator accepts it and the title is "Design of Systems".
C2_ScenarioAsClaimed ==
    ScenarioDone =>
        /\ Len(eng.phrases) = 2
        /\ eng.phrases[1].fontSize = 24 /\ eng.phrases[2].fontSize = 10
        /\ eng.tl = DesignOfSystemsSpaced
        /\ dictCheck(eng.tl)
        /\ eng.title = DesignOfSystemsSpaced

\* C2 (amended): for these runs there are two phrases, of sizes 24 and 10;
\* the gaps of 2 between the three runs of size 24 are below the spacing of
\* 0.16 * 24 = 3.84, so no separator is inserted and the candidate is
\* "DesignofSystems"; it is a single token that is no dictionary word, the
\* validator rejects it and the title is empty.
C2_ScenarioAmended ==
    ScenarioDone =>
        /\ Len(eng.phrases) = 2
        /\ eng.phrases[1].fontSize = 24 /\ eng.phrases[2].fontSize = 10
        /\ eng.tl = DesignOfSystemsJoined
        /\ ~dictCheck(eng.tl)
        /\ eng.title = <<>>

\* C2 witness: the scenario has run to its end.
C2_Witness == ScenarioDone /\ Len(eng.ranked) = 2

\* C3 (as claimed): after the sort the phrases are in descending font size
\* and phrases of equal font size are in document order.
C3_StableRanking ==
    eng.pc \in {"select", "check", "done"} =>
        \A i \in 1..Len(eng.ranked) : \A j \in 1..Len(eng.ranked) :
            i < j =>
                /\ eng.ranked[i].fontSize >= eng.ranked[j].fontSize
                /\ (eng.ranked[i].fontSize = eng.ranked[j].fontSize
                        => eng.ranked[i].ord < eng.ranked[j].ord)

\* The places of s where a character starts, s being valid UTF-8 up to a
\* last character that may be cut: the bytes that continue no sequence.
CharStarts(s) == {i \in 1..Len(s) : ~IsCont(s[i])}

\* The number of characters of s.
RuneCount(s) == Cardinality(CharStarts(s))

\* C4 (as claimed): the candidate handed to dictCheck is the rendering of
\* the second phrase when that of the first has fewer than 4 characters and
\* a second phrase exists, and the rendering of the first otherwise.
C4_FallbackAsClaimed ==
    eng.pc = "check" =>
        eng.tl = IF RuneCount(String(eng.ranked[1])) < 4 /\ Len(eng.ranked) > 1
                 THEN String(eng.ranked[2])
                 ELSE String(eng.ranked[1])

\* C4 (amended): the candidate handed to dictCheck is the rendering of the
\* second phrase when that of the first has fewer than 4 bytes and a second
\* phrase exists, the empty string when that of the first has fewer than 4
\* bytes and no second phrase exists, and the rendering of the first
\* otherwise.
C4_FallbackAmended ==
    eng.pc = "check" =>
        /\ (Len(String(eng.ranked[1])) >= 4 => eng.tl = String(eng.ranked[1]))
        /\ (Len(String(eng.ranked[1])) < 4 /\ Len(eng.ranked) > 1
                => eng.tl = String(eng.ranked[2]))
        /\ (Len(String(eng.ranked[1])) < 4 /\ Len(eng.ranked) = 1
                => eng.tl = <<>>)

\* C4 witness: the only phrase renders as "the", a dictionary word of three
\* bytes, and the candidate is empty.
C4_Witness ==
    /\ eng.pc = "check"
    /\ Len(eng.ranked) = 1
    /\ String(eng.ranked[1]) = <<116, 104, 101>>
    /\ eng.tl = <<>>

\* The panic messages that contain "malformed hex string".
HexPanics == {"malformed hex string", "pdf: malformed hex string in object"}
HexError == "reader paniced: malformed hex string"

\* C9: phrasesOfDoc and title return an error exactly when NewReader failed
\* or the reader panicked; a panic is always recovered into an error; a panic
\* whose message contains "malformed hex string" gives an error that differs
\* from that of every other panic and from every init error; with an error
\* the title is empty; a document without a usable page or without text
\* runs gives no error and an empty title.
C9_ErrorsOfTitle ==
    /\ eng.pc \in {"ret", "select", "check", "done"} =>
          /\ (eng.rerr # "") <=> (eng.fault # "none")
          /\ eng.fault = "abort" =>
                IF eng.panicVal \in HexPanics
                THEN /\ eng.rerr = HexError
                     /\ \A v \in PanicVals \ HexPanics : eng.rerr # RecoverErr(v)
                     /\ \A m \in InitErrs : eng.rerr # InitErr(m)
                ELSE eng.rerr # HexError
          /\ eng.fault = "init" => eng.rerr \in {InitErr(m) : m \in InitErrs}
                                      /\ eng.rerr # HexError
    /\ eng.pc = "done" =>
          /\ eng.err = eng.rerr
          /\ (eng.err # "" => eng.title = <<>>)
          /\ (eng.fault = "none" /\ eng.read = <<>>
                => eng.err = "" /\ eng.title = <<>>)

\* C9 witness: the reader panicked with a malformed hex string after a null
\* page, and title returned the distinct error and no title.
C9_Witness ==
    /\ eng.pc = "done"
    /\ eng.fault = "abort"
    /\ eng.panicVal = "pdf: malformed hex string in object"
    /\ eng.i = 2
    /\ eng.err = HexError

\* The run the loop's step has just ranged over.
LastRun == Run(eng.read[Len(eng.read)])

\* C12: a step of the loop in which tryAppend accepts run t appends to the
\* phrase's buffer one space and printable(t.S) when the buffer is not empty
\* and t.Y < prevy or t.X - prevx is at least 0.16 times the seed's font
\* size, and printable(t.S) alone otherwise; prevx becomes t.X + t.W and
\* prevy becomes t.Y; the seed's font, font size and spacing stay.  A step
\* in which tryAppend rejects the run closes the phrase as it was.
C12_SeparatorRule ==
    [][/\ eng.pc = "loop" /\ eng'.pc = "loop" /\ LoopAppend =>
            LET p == eng.curr[1]
                q == eng'.curr[1]
                t == LastRun'
                sep == /\ Len(p.b) > 0
                       /\ \/ t.Y < p.prevy
                          \/ (t.X - p.prevx) * 100 >= 16 * p.sizes[1]
            IN  /\ q.b = p.b \o (IF sep THEN <<32>> ELSE <<>>) \o printable(t.S)
                /\ q.prevx = t.X + t.W
                /\ q.prevy = t.Y
                /\ q.font = p.font
                /\ q.fontSize = p.fontSize
                /\ q.spacing = p.spacing
       /\ eng.pc = "loop" /\ eng'.pc = "loop" /\ LoopReject =>
            /\ Len(eng'.phrases) = Len(eng.phrases) + 1
            /\ eng'.phrases[Len(eng'.phrases)] = eng.curr[1]]_vars

\* C12 witness: the empty run 9 seeded a phrase of size 25; "Design" was
\* appended without a separator, the phrase being empty; run 9 again, 4.00
\* after the end of "Design", was appended with a separator.
C12_Witness ==
    /\ eng.pc = "loop"
    /\ eng.read = <<9, 1, 9>>
    /\ Len(eng.curr) = 1
    /\ eng.curr[1].b = <<68,101,115,105,103,110,32>>
    /\ eng.curr[1].prevx = 44

\* The phrases of the loop in the order of the output: the closed ones, then
\* the open one.
OutputOrder == eng.phrases \o eng.curr

\* The place in the input of the seed of the phrase that is open after the
\* first j runs of read: the first run seeds, and so does every run whose
\* font size is 4.0 or more away from the seed before it.
RECURSIVE SeedIndex(_, _)
SeedIndex(read, j) ==
    IF j = 1 THEN 1
    ELSE LET sd == SeedIndex(read, j - 1)
         IN  IF Abs(Run(read[j]).FontSize - Run(read[sd]).FontSize) < 4 THEN sd
             ELSE j

\* The runs of read that the phrase open before them rejects.
Rejections(read) == {j \in 2..Len(read) : SeedIndex(read, j) = j}

\* The place in the input of the first run of the k-th phrase of ps.
RECURSIVE SegStart(_, _)
SegStart(ps, k) ==
    IF k = 1 THEN 1 ELSE SegStart(ps, k - 1) + Len(ps[k - 1].sizes)

NotSpace(c) == c # space

\* The sanitized text of every run, without its spaces.
RunText == [id \in RunIds |-> SelectSeq(printable(Run(id).S), NotSpace)]

\* The sanitized texts of the runs read[from..to], one after the other,
\* without their spaces.
RECURSIVE SegText(_, _, _)
SegText(read, from, to) ==
    IF from > to THEN <<>>
    ELSE RunText[read[from]] \o SegText(read, from + 1, to)

\* C13: at every point of the loop the phrases, the closed ones and then the
\* open one, partition the runs ranged over so far, in order: the k-th
\* phrase is the k-th in document order and holds a segment of consecutive
\* runs that starts where the one before it ends; the first run of a
\* segment is the first run of the input or a run the phrase before
\* rejected, and it is the seed; the phrase's text is the text of its runs
\* up to separators; the segments cover the input.  There is one phrase more
\* than rejections, and none for no runs; when the loop has ended the open
\* phrase is closed, and no runs is not an error.  After phrasesOfDoc has
\* returned, its output is no longer written to and its length is stated.
C13_PhrasesPartitionRuns ==
    LET ps == OutputOrder
        n == Len(eng.read)
        last == Len(ps)
        rej == Rejections(eng.read)
    IN  /\ eng.pc \in {"loop", "ret"} =>
              /\ Len(ps) = IF n = 0 THEN 0 ELSE Cardinality(rej) + 1
              /\ n > 0 => SegStart(ps, last) + Len(ps[last].sizes) = n + 1
              /\ \A k \in 1..Len(ps) :
                    LET from == SegStart(ps, k)
                        to == from + Len(ps[k].sizes) - 1
                    IN  /\ ps[k].ord = k
                        /\ ps[k].sizes # <<>>
                        /\ to <= n
                        /\ from = 1 \/ from \in rej
                        /\ \A j \in (from + 1)..to : j \notin rej
                        /\ ps[k].font = Run(eng.read[from]).Font
                        /\ ps[k].fontSize = Run(eng.read[from]).FontSize
                        /\ \A j \in from..to :
                              ps[k].sizes[j - from + 1] = Run(eng.read[j]).FontSize
                        /\ SelectSeq(ps[k].b, NotSpace) = SegText(eng.read, from, to)
        /\ eng.pc \in {"select", "check", "done"} =>
              Len(ps) = IF n = 0 THEN 0 ELSE Cardinality(rej) + 1
        /\ eng.pc \in {"loop", "ret"} => eng.ranked = <<>>
        /\ eng.pc \notin {"loop"} => eng.curr = <<>>
        /\ eng.pc \in {"ret", "select", "check", "done"} /\ eng.fault = "none" =>
              eng.rerr = "" /\ eng.err = ""

\* C13 witness: of "Design", "of", the body text and "the", the first two
\* made one phrase, the third was rejected by it and the fourth by the
\* third: two rejections, three phrases, the last closed at the end.
C13_Witness ==
    /\ eng.pc = "ret"
    /\ eng.read = <<1, 2, 4, 5>>
    /\ Len(eng.phrases) = 3
    /\ Len(eng.phrases[1].sizes) = 2
    /\ eng.phrases[3].fontSize = 30

\* C13 witness of the edge: the page has no runs; the loop ended with no
\* phrases and title returned the empty title and no error.
C13_NoRuns ==
    /\ eng.pc = "done"
    /\ eng.fault = "none"
    /\ eng.read = <<>>
    /\ eng.i = 1

(***************************************************************************)
(* phrase.String on long buffers.                                          *)
(***************************************************************************)
MaxTail == 3

\* n times the letter 'a'.
Pad(n) == [i \in 1..n |-> 97]

\* The runes a buffer's tail is made of: 'a', a space, U+00FF (two bytes)
\* and U+FF7D (three bytes).  A phrase's buffer is the output of printable
\* and of separators, so it is valid UTF-8.
TailRunes == {97, 32, 255, 65405}

\* The lengths of the run of letters before the tail.
PadLens == {0, 2, 76, 77, 78, 79, 80, 100}

\* rnd: one call of String on a phrase whose buffer is b.
InitString ==
    /\ rnd \in {[pc |-> "new", b |-> Pad(n) \o EncodeRunes(t), out |-> <<>>] :
                    n \in PadLens, t \in SeqsUpTo(TailRunes, MaxTail)}
    /\ san = Idle /\ eng = Idle /\ dct = Idle /\ idx = Idle

Render ==
    /\ rnd.pc = "new"
    /\ rnd' = [rnd EXCEPT !.pc = "done", !.out = StringOf(rnd.b)]
    /\ UNCHANGED <<san, eng, dct, idx>>

SpecString == InitString /\ [][Render]_vars

\* The first n characters of s, or all of s if it has fewer.
FirstRunes(s, n) ==
    IF RuneCount(s) <= n THEN s
    ELSE LET next == CHOOSE i \in CharStarts(s) :
                        Cardinality({j \in CharStarts(s) : j < i}) = n
         IN  SubSeq(s, 1, next - 1)

\* s is made of whole characters: every byte that starts a character is
\* followed by all the bytes of its sequence.
ValidUTF8(s) ==
    /\ s # <<>> => ~IsCont(s[1])
    /\ \A i \in CharStarts(s) :
          LET d == DecodeRuneInString(SubSeq(s, i, Len(s)))
          IN  d.siz = SeqLen(s[i]) /\ d.siz > 0

\* C5 (as claimed): String returns the buffer's text with white space
\* collapsed and trimmed, cut to its first 80 characters: the result has no
\* partial character, and a collapsed text of 80 characters or more gives
\* exactly 80 characters.
C5_TruncateOnCharacters ==
    rnd.pc = "done" =>
        LET collapsed == Join(Fields(rnd.b))
        IN  /\ rnd.out = FirstRunes(collapsed, 80)
            /\ ValidUTF8(rnd.out)
            /\ (RuneCount(collapsed) >= 80 => RuneCount(rnd.out) = 80)

(***************************************************************************)
(* dictCheck on candidates of several words.                               *)
(***************************************************************************)
MaxWords == 6

\* The words candidates are made of: "the" (a dictionary word), "xqz" (none),
\* "Systems" (a dictionary word once stemmed and lowered), "of" (too short
\* to be a token) and "x42y" (no three letters in a row).
Word(id) ==
    CASE id = 1 -> <<116,104,101>>
      [] id = 2 -> <<120,113,122>>
      [] id = 3 -> <<83,121,115,116,101,109,115>>
      [] id = 4 -> <<111,102>>
      [] id = 5 -> <<120,52,50,121>>

WordIds == 1..5

\* The candidate made of the words ws, separated by single spaces.
RECURSIVE Sentence(_)
Sentence(ws) ==
    IF ws = <<>> THEN <<>>
    ELSE IF Len(ws) = 1 THEN Word(ws[1])
    ELSE Word(ws[1]) \o <<space>> \o Sentence(Tail(ws))

\* dct: one call of dictCheck on the candidate s made of the words ws.
InitDict ==
    /\ dct \in {[pc |-> "new", ws |-> ws, s |-> Sentence(ws), res |-> FALSE] :
                    ws \in SeqsUpTo(WordIds, MaxWords)}
    /\ san = Idle /\ eng = Idle /\ rnd = Idle /\ idx = Idle

DictCheck ==
    /\ dct.pc = "new"
    /\ dct' = [dct EXCEPT !.pc = "done", !.res = dictCheck(dct.s)]
    /\ UNCHANGED <<san, eng, rnd, idx>>

SpecDict == InitDict /\ [][DictCheck]_vars

\* The tokens of the candidate and those that hit the dictionary, from the
\* words it was made of.
TokenWords == {i \in 1..Len(dct.ws) : dct.ws[i] \in {1, 2, 3}}
HitWords == {i \in 1..Len(dct.ws) : dct.ws[i] \in {1, 3}}

\* C8: dictCheck returns true exactly when the candidate has at least one
\* token and hits / tokens >= 1/5, the boundary included: one hit in five
\* tokens is accepted, one hit in six is rejected, no token is rejected.
C8_RatioThresholdInclusive ==
    dct.pc = "done" =>
        /\ dct.res = (/\ Cardinality(TokenWords) > 0
                      /\ 5 * Cardinality(HitWords) >= Cardinality(TokenWords))
        /\ (Cardinality(HitWords) = 1 /\ Cardinality(TokenWords) = 5 => dct.res)
        /\ (Cardinality(HitWords) = 1 /\ Cardinality(TokenWords) = 6 => ~dct.res)
        /\ (Cardinality(TokenWords) = 0 => ~dct.res)

\* C8 witness: "xqz xqz Systems xqz xqz", one hit (by its stem) in five
\* tokens, is accepted.
C8_Witness ==
    /\ dct.pc = "done"
    /\ dct.ws = <<2, 2, 3, 2, 2>>
    /\ dct.res

(***************************************************************************)
(* addPDF, and the add command that calls it for every file.               *)
(***************************************************************************)
MaxDocs == 2

\* The SHA-256 signatures of the files of the model.
Sigs == {"sig1", "sig2"}

\* What title can return: a title or none without an error, and no title
\* with each of its errors.
TitleResults ==
    {[tl |-> t, err |-> ""] : t \in {<<>>, <<116, 104, 101>>}}
        \cup {[tl |-> <<>>, err |-> e] :
                e \in {InitErr("not a PDF file"), RecoverErr("malformed hex string"),
                       RecoverErr("unexpected EOF")}}

\* A mutant of AfterTitle: a title error is returned.
AfterTitle_Return(terr) ==
    IF terr # "" THEN [pc |-> "returned", addErr |-> terr]
    ELSE [pc |-> "insert", addErr |-> ""]

\* addPDF after title returned terr: the error is logged, nothing else.
AfterTitle(terr) == [pc |-> "insert", addErr |-> ""]

\* idx: the index and one run of the add command.  n counts the files
\* addPDF has returned for; doc is the file addPDF is called with, reached
\* by a directory walk (scanFunc) or named as an argument (addPath); rows
\* is the table pdfs, a row being the path, the signature and the title
\* (the pages, the text and the cover are left out); ft, cv and pg are the
\* three extraction tasks; log is what addPDF and scanFunc logged for doc.
InitAdd ==
    /\ idx = [pc |-> "next", n |-> 0,
              doc |-> [path |-> 0, sig |-> "sig1", ispdf |-> TRUE, mode |-> "walk"],
              rows |-> <<>>, ft |-> "idle", cv |-> "idle", pg |-> "idle",
              titled |-> FALSE, tl |-> <<>>, terr |-> "", addErr |-> "",
              log |-> <<>>]
    /\ san = Idle /\ eng = Idle /\ rnd = Idle /\ dct = Idle

\* The next file of the run: addPDF(path) is called.
NextDoc ==
    /\ idx.pc = "next"
    /\ idx.n < MaxDocs
    /\ \E sig \in Sigs, ispdf \in BOOLEAN, mode \in {"walk", "arg"} :
          idx' = [idx EXCEPT !.pc = "addPDF",
                             !.doc = [path |-> idx.n + 1, sig |-> sig,
                                      ispdf |-> ispdf, mode |-> mode],
                             !.ft = "idle", !.cv = "idle", !.pg = "idle",
                             !.titled = FALSE, !.tl = <<>>, !.terr = "",
                             !.addErr = "", !.log = <<>>]
    /\ UNCHANGED <<san, eng, rnd, dct>>

\* No file is left: the command returns nil.
RunEnd ==
    /\ idx.pc = "next"
    /\ idx' = [idx EXCEPT !.pc = "finished"]
    /\ UNCHANGED <<san, eng, rnd, dct>>

\* The path has no .pdf suffix: return nil.
NotPDF ==
    /\ idx.pc = "addPDF"
    /\ ~idx.doc.ispdf
    /\ idx' = [idx EXCEPT !.pc = "returned"]
    /\ UNCHANGED <<san, eng, rnd, dct>>

\* newPDF fails, or the query of existsStmt fails.
ReadFail ==
    /\ idx.pc = "addPDF"
    /\ idx.doc.ispdf
    /\ \E e \in {"failed to read", "failed to check existence"} :
          idx' = [idx EXCEPT !.pc = "returned", !.addErr = e]
    /\ UNCHANGED <<san, eng, rnd, dct>>

\* A mutant of Exists: the query finds no row.
Exists_Never(rows, sig) == FALSE

\* existsSQL: a row with sig exists.
Exists(rows, sig) == \E k \in 1..Len(rows) : rows[k].sig = sig

\* exists > 0: log and return nil.
Duplicate ==
    /\ idx.pc = "addPDF"
    /\ idx.doc.ispdf
    /\ Exists(idx.rows, idx.doc.sig)
    /\ idx' = [idx EXCEPT !.pc = "returned", !.log = Append(@, "Duplicate")]
    /\ UNCHANGED <<san, eng, rnd, dct>>

\* The three goroutines are started.
Spawn ==
    /\ idx.pc = "addPDF"
    /\ idx.doc.ispdf
    /\ ~Exists(idx.rows, idx.doc.sig)
    /\ idx' = [idx EXCEPT !.pc = "tasks", !.ft = "run", !.cv = "run", !.pg = "run"]
    /\ UNCHANGED <<san, eng, rnd, dct>>

\* pdf.FullText returns; an error is also a timeout or a cancellation.
FullTextDone ==
    /\ idx.pc = "tasks"
    /\ idx.ft = "run"
    /\ \E r \in {"ok", "err"} : idx' = [idx EXCEPT !.ft = r]
    /\ UNCHANGED <<san, eng, rnd, dct>>

\* pdf.Cover returns.
CoverDone ==
    /\ idx.pc = "tasks"
    /\ idx.cv = "run"
    /\ \E r \in {"ok", "err"} : idx' = [idx EXCEPT !.cv = r]
    /\ UNCHANGED <<san, eng, rnd, dct>>

\* pdf.Pages returns.
PagesDone ==
    /\ idx.pc = "tasks"
    /\ idx.pg = "run"
    /\ \E r \in {"ok", "err"} : idx' = [idx EXCEPT !.pg = r]
    /\ UNCHANGED <<san, eng, rnd, dct>>

\* A mutant of AllDone: the wait group counts two tasks, wg.Wait() does not
\* wait for pdf.Pages.
AllDone_TwoTasks == idx.ft # "run" /\ idx.cv # "run"

\* wg.Wait() returns: the three goroutines have called wg.Done().
AllDone == idx.ft # "run" /\ idx.cv # "run" /\ idx.pg # "run"

\* wg.Wait() returns and one of the tasks failed: its error is returned,
\* contentsErr before coverErr before pagesErr.
WaitFail ==
    /\ idx.pc = "tasks"
    /\ AllDone
    /\ "err" \in {idx.ft, idx.cv, idx.pg}
    /\ idx' = [idx EXCEPT !.pc = "returned",
                          !.addErr = IF idx.ft = "err" THEN "failed to get full text"
                                     ELSE IF idx.cv = "err" THEN "failed to get cover"
                                     ELSE "failed to get pages"]
    /\ UNCHANGED <<san, eng, rnd, dct>>

\* wg.Wait() returns and no task failed: title(cover) is called; its error
\* is logged.
Title ==
    /\ idx.pc = "tasks"
    /\ AllDone
    /\ "err" \notin {idx.ft, idx.cv, idx.pg}
    /\ \E res \in TitleResults :
          idx' = [idx EXCEPT !.pc = AfterTitle(res.err).pc,
                             !.addErr = AfterTitle(res.err).addErr,
                             !.titled = TRUE, !.tl = res.tl, !.terr = res.err,
                             !.log = IF res.err # "" THEN Append(@, "title error")
                                     ELSE @]
    /\ UNCHANGED <<san, eng, rnd, dct>>

\* The row insertStmt.Exec is called with.
Row == [path |-> idx.doc.path, sig |-> idx.doc.sig, tl |-> idx.tl]

\* insertStmt.Exec succeeds: return nil.
InsertOK ==
    /\ idx.pc = "insert"
    /\ idx' = [idx EXCEPT !.pc = "returned", !.rows = Append(@, Row)]
    /\ UNCHANGED <<san, eng, rnd, dct>>

\* insertStmt.Exec fails: its error is returned.
InsertFail ==
    /\ idx.pc = "insert"
    /\ idx' = [idx EXCEPT !.pc = "returned", !.addErr = "insert failed"]
    /\ UNCHANGED <<san, eng, rnd, dct>>

\* scanFunc: an error of addPDF is logged and the walk goes on.
ScanContinue ==
    /\ idx.pc = "returned"
    /\ idx.doc.mode = "walk"
    /\ idx' = [idx EXCEPT !.pc = "next", !.n = @ + 1,
                          !.log = IF idx.addErr # "" THEN Append(@, "add error")
                                  ELSE @]
    /\ UNCHANGED <<san, eng, rnd, dct>>

\* addPath on a file: addPDF returned nil, the command goes on.
ArgContinue ==
    /\ idx.pc = "returned"
    /\ idx.doc.mode = "arg"
    /\ idx.addErr = ""
    /\ idx' = [idx EXCEPT !.pc = "next", !.n = @ + 1]
    /\ UNCHANGED <<san, eng, rnd, dct>>

\* addPath on a file: addPDF returned an error, the command returns it.
ArgAbort ==
    /\ idx.pc = "returned"
    /\ idx.doc.mode = "arg"
    /\ idx.addErr # ""
    /\ idx' = [idx EXCEPT !.pc = "aborted"]
    /\ UNCHANGED <<san, eng, rnd, dct>>

NextAdd ==
    \/ NextDoc \/ RunEnd \/ NotPDF \/ ReadFail \/ Duplicate \/ Spawn
    \/ FullTextDone \/ CoverDone \/ PagesDone \/ WaitFail \/ Title
    \/ InsertOK \/ InsertFail \/ ScanContinue \/ ArgContinue \/ ArgAbort

SpecAdd == InitAdd /\ [][NextAdd]_vars

\* C10: when title returns an error in addPDF, the error is logged and
\* nothing else: insertStmt.Exec is still called, with an empty title;
\* addPDF returns what Exec returns, so on success the file's row is in the
\* index; the run is never ended by a title error, and after such a file
\* the command goes on with the next.
C10_TitleErrorNeverAborts ==
    /\ idx.terr # "" =>
          /\ idx.pc \in {"insert", "returned", "next", "aborted", "finished"}
          /\ idx.tl = <<>>
          /\ \E k \in 1..Len(idx.log) : idx.log[k] = "title error"
    /\ idx.pc = "returned" /\ idx.titled =>
          /\ idx.addErr \in {"", "insert failed"}
          /\ idx.addErr = "" =>
                /\ idx.rows # <<>>
                /\ idx.rows[Len(idx.rows)] =
                      [path |-> idx.doc.path, sig |-> idx.doc.sig, tl |-> idx.tl]
    /\ idx.pc = "returned" /\ idx.addErr = "" => ENABLED (ScanContinue \/ ArgContinue)
    /\ idx.pc = "aborted" => idx.addErr # "" /\ idx.addErr # idx.terr

\* C10 witness: title failed for the second file of a run; the file was
\* inserted with an empty title and addPDF returned nil.
C10_Witness ==
    /\ idx.pc = "returned"
    /\ idx.n = 1
    /\ idx.terr = HexError
    /\ idx.addErr = ""
    /\ Len(idx.rows) = 2
    /\ idx.rows[2].tl = <<>>
    /\ idx.rows[2].path = 2

\* A row of the index holds the file addPDF is called with.
DocInserted == \E k \in 1..Len(idx.rows) : idx.rows[k].path = idx.doc.path

\* C11: in addPDF title is called only after pdf.FullText, pdf.Cover and
\* pdf.Pages have all returned, and only if none of them returned an error
\* (a timeout of the context is such an error); Exec is called only after
\* title; when a task failed, title is not called for the file, addPDF
\* returns the task's error and the index has no row for the file.
C11_TitleOnlyAfterTasks ==
    /\ idx.titled => idx.ft = "ok" /\ idx.cv = "ok" /\ idx.pg = "ok"
    /\ idx.pc = "insert" => idx.titled
    /\ DocInserted => idx.titled
    /\ "err" \in {idx.ft, idx.cv, idx.pg} =>
          /\ ~idx.titled
          /\ ~DocInserted
          /\ idx.pc \in {"tasks", "returned", "next", "aborted", "finished"}
          /\ idx.pc = "tasks" => idx.addErr = ""
          /\ idx.pc # "tasks" =>
                idx.addErr \in {"failed to get full text", "failed to get cover",
                                "failed to get pages"}

\* C11 witness: the first file of a run was indexed; for the second, the
\* full text and the page count were extracted and pdf.Cover failed: addPDF
\* has returned the cover's error without calling title, and the index
\* holds the first file only.
C11_Witness ==
    /\ idx.pc = "returned"
    /\ idx.n = 1
    /\ idx.ft = "ok" /\ idx.cv = "err" /\ idx.pg = "ok"
    /\ ~idx.titled
    /\ idx.addErr = "failed to get cover"
    /\ Len(idx.rows) = 1
    /\ idx.rows[1].path = 1

\* addPDF logged the file as a duplicate.
LoggedDuplicate == \E k \in 1..Len(idx.log) : idx.log[k] = "Duplicate"

\* C14: in a run of the add command, which calls addPDF for one file after
\* the other, no two rows of the index have the same signature.  The
\* extraction tasks are started, and Exec is called, only for a signature
\* no row has.  A call that finds its signature in the index logs the
\* duplicate and returns nil with no task started, title not called and no
\* row for the file; the step leaves the table as it is, and the command
\* goes on.  The one other way such a call returns is the error of newPDF
\* or of the query itself.
C14_NoDuplicateSignatures ==
    /\ [](/\ \A j, k \in 1..Len(idx.rows) :
                idx.rows[j].sig = idx.rows[k].sig => j = k
          /\ idx.pc \in {"tasks", "insert"} => ~Exists(idx.rows, idx.doc.sig)
          /\ LoggedDuplicate =>
                /\ Exists(idx.rows, idx.doc.sig)
                /\ ~DocInserted
                /\ idx.ft = "idle" /\ idx.cv = "idle" /\ idx.pg = "idle"
                /\ ~idx.titled
                /\ idx.addErr = ""
                /\ idx.pc \in {"returned", "next", "finished"}
          /\ idx.pc = "returned" /\ idx.doc.ispdf /\ ~DocInserted
                /\ Exists(idx.rows, idx.doc.sig) =>
                \/ LoggedDuplicate
                \/ idx.addErr \in {"failed to read", "failed to check existence"})
    /\ [][Duplicate => idx'.rows = idx.rows /\ idx'.addErr = ""]_vars

\* C14 witness: the second file of a run has the signature of the first,
\* which is in the index: addPDF has logged the duplicate and returned nil,
\* and the index holds the first file only.
C14_Witness ==
    /\ idx.pc = "returned"
    /\ idx.n = 1
    /\ idx.doc.path = 2
    /\ LoggedDuplicate
    /\ idx.addErr = ""
    /\ Len(idx.rows) = 1
    /\ idx.rows[1].path = 1
    /\ idx.rows[1].sig = idx.doc.sig

====
